---------------------------- MODULE Spec2Model ----------------------------
(***************************************************************************)
(* Model of the date tools and the two-round tool-call relay of            *)
(* simple_ai_tools.py, of the datetime helper of get_monday.py and of the  *)
(* interactive loop of pydantic_ai_tools.py.                               *)
(*                                                                         *)
(* Text is a sequence of one-character strings, so that parsing            *)
(* (datetime.strptime) and formatting (strftime) are computed and not      *)
(* assumed.  A date is its proleptic Gregorian ordinal (0001-01-01 = 1),   *)
(* as in CPython's datetime.                                               *)
(***************************************************************************)
EXTENDS Integers, Sequences, FiniteSets, TLC

VARIABLES
    program,               \* which script runs: "simple" | "pydantic" | "dates"
    pc,                    \* position of the running script
    user_input,            \* main: user_input (after strip)
    conversation_history,  \* main: conversation_history
    messages,              \* chat_with_claude: messages
    tools_used,            \* chat_with_claude: tools_used
    tool_results,          \* chat_with_claude: tool_results
    response_text,         \* value bound to response_text in main
    requests,              \* calls of client.messages.create in this turn
    executed,              \* ids passed to execute_tool in this turn, in order
    first_response,        \* the first response of this turn
    turn_start,            \* conversation_history when the turn started
    outcome,               \* how the last turn ended
    strftime_pads_year,    \* platform: does strftime('%Y') zero-pad to 4 digits
    date_str,              \* argument of the date tool under test
    tool_name,             \* date tool under test
    result,                \* outcome of the date tool under test
    prev_result            \* outcome of the previous call, when chained

vars == <<program, pc, user_input, conversation_history, messages, tools_used,
          tool_results, response_text, requests, executed, first_response,
          turn_start, outcome, strftime_pads_year, date_str, tool_name,
          result, prev_result>>

relay_vars == <<user_input, conversation_history, messages, tools_used,
                tool_results, response_text, requests, executed,
                first_response, turn_start, outcome>>

date_vars == <<date_str, tool_name, result, prev_result>>

-----------------------------------------------------------------------------
(* Characters and numbers *)

DigitChars == <<"0", "1", "2", "3", "4", "5", "6", "7", "8", "9">>

IsDigit(c) == \E i \in 1..10 : DigitChars[i] = c

DigitVal(c) == (CHOOSE i \in 1..10 : DigitChars[i] = c) - 1

D(i) == DigitChars[i + 1]

RECURSIVE Decimal(_)
Decimal(n) == IF n < 10 THEN <<D(n)>> ELSE Decimal(n \div 10) \o <<D(n % 10)>>

Pad2(n) == <<D(n \div 10), D(n % 10)>>

Pad4(n) == <<D(n \div 1000), D((n \div 100) % 10), D((n \div 10) % 10), D(n % 10)>>

RECURSIVE Number(_)
Number(s) == IF s = <<>> THEN 0
             ELSE 10 * Number(SubSeq(s, 1, Len(s) - 1)) + DigitVal(s[Len(s)])

-----------------------------------------------------------------------------
(* datetime: the proleptic Gregorian calendar *)

MINYEAR == 1

MAXYEAR == 9999

IsLeap(y) == y % 4 = 0 /\ (y % 100 # 0 \/ y % 400 = 0)

DaysInMonth(y, m) ==
    IF m = 2 THEN (IF IsLeap(y) THEN 29 ELSE 28)
    ELSE IF m \in {4, 6, 9, 11} THEN 30 ELSE 31

DaysBeforeYear(y) ==
    (y - 1) * 365 + (y - 1) \div 4 - (y - 1) \div 100 + (y - 1) \div 400

RECURSIVE DaysBeforeMonth(_, _)
DaysBeforeMonth(y, m) ==
    IF m = 1 THEN 0 ELSE DaysBeforeMonth(y, m - 1) + DaysInMonth(y, m - 1)

ymd2ord(y, m, d) == DaysBeforeYear(y) + DaysBeforeMonth(y, m) + d

MAXORDINAL == ymd2ord(MAXYEAR, 12, 31)

YearOf(n) ==
    LET n0   == n - 1
        n400 == n0 \div 146097
        r400 == n0 % 146097
        n100 == r400 \div 36524
        r100 == r400 % 36524
        n4   == r100 \div 1461
        r4   == r100 % 1461
        n1   == r4 \div 365
        y    == n400 * 400 + n100 * 100 + n4 * 4 + n1 + 1
    IN  IF n1 = 4 \/ n100 = 4 THEN y - 1 ELSE y

RECURSIVE MonthOf(_, _, _)
MonthOf(y, rest, m) ==
    IF rest <= DaysInMonth(y, m) THEN m
    ELSE MonthOf(y, rest - DaysInMonth(y, m), m + 1)

ord2ymd(n) ==
    LET y == YearOf(n)
        r == n - DaysBeforeYear(y)
        m == MonthOf(y, r, 1)
    IN  [year |-> y, month |-> m, day |-> r - DaysBeforeMonth(y, m)]

weekday(n) == (n + 6) % 7

-----------------------------------------------------------------------------
(* Values handed to the tools, and what a call does *)

Str(t) == [type |-> "str", text |-> t]

NotStr == [type |-> "int", text |-> <<"5">>]

Return(v) == [kind |-> "return", exc |-> "", val |-> v, date |-> 0]

ReturnDate(n) == [kind |-> "return", exc |-> "", val |-> <<>>, date |-> n]

Raise(e, msg) == [kind |-> "raise", exc |-> e, val |-> msg, date |-> 0]

NoResult == [kind |-> "none", exc |-> "", val |-> <<>>, date |-> 0]

NoResponse == [stop_reason |-> "", content |-> <<>>]

InvalidDateMsg == <<"Invalid date format. Please use YYYY-MM-DD format.">>

DateRangeMsg == <<"date value out of range">>

NotStrMsg == <<"strptime() argument 1 must be str, not int">>

day_names ==
    <<"Monday", "Tuesday", "Wednesday", "Thursday", "Friday", "Saturday", "Sunday">>

(* datetime.strptime(text, '%Y-%m-%d'): the directives' regular expressions *)
(* %Y = \d\d\d\d, %m = 1[0-2]|0[1-9]|[1-9], %d = 3[01]|[12]\d|0[1-9]|[1-9]| [1-9] *)
(* and the whole text must be consumed.                                      *)
MatchesYear(t) == Len(t) = 4 /\ \A i \in 1..4 : IsDigit(t[i])

MatchesMonth(t) ==
    \/ Len(t) = 2 /\ t[1] = "1" /\ t[2] \in {"0", "1", "2"}
    \/ Len(t) = 2 /\ t[1] = "0" /\ IsDigit(t[2]) /\ t[2] # "0"
    \/ Len(t) = 1 /\ IsDigit(t[1]) /\ t[1] # "0"

MatchesDay(t) ==
    \/ Len(t) = 2 /\ t[1] = "3" /\ t[2] \in {"0", "1"}
    \/ Len(t) = 2 /\ t[1] \in {"1", "2"} /\ IsDigit(t[2])
    \/ Len(t) = 2 /\ t[1] = "0" /\ IsDigit(t[2]) /\ t[2] # "0"
    \/ Len(t) = 1 /\ IsDigit(t[1]) /\ t[1] # "0"
    \/ Len(t) = 2 /\ t[1] = " " /\ IsDigit(t[2]) /\ t[2] # "0"

DayNumber(t) == IF t[1] = " " THEN DigitVal(t[2]) ELSE Number(t)

\* the ways the text splits into year-month-day fields (at most one)
Fields(t) ==
    { f \in [ml : {1, 2}, dl : {1, 2}] :
        /\ Len(t) = 6 + f.ml + f.dl
        /\ MatchesYear(SubSeq(t, 1, 4))
        /\ t[5] = "-"
        /\ MatchesMonth(SubSeq(t, 6, 5 + f.ml))
        /\ t[6 + f.ml] = "-"
        /\ MatchesDay(SubSeq(t, 7 + f.ml, Len(t))) }

\* [ok |-> TRUE, date |-> ordinal], or ok = FALSE where strptime raises ValueError
strptime(t) ==
    IF Fields(t) = {} THEN [ok |-> FALSE, date |-> 0]
    ELSE LET f == CHOOSE g \in Fields(t) : TRUE
             y == Number(SubSeq(t, 1, 4))
             m == Number(SubSeq(t, 6, 5 + f.ml))
             d == DayNumber(SubSeq(t, 7 + f.ml, Len(t)))
         IN  IF y < MINYEAR \/ y > MAXYEAR \/ d > DaysInMonth(y, m)
             THEN [ok |-> FALSE, date |-> 0]
             ELSE [ok |-> TRUE, date |-> ymd2ord(y, m, d)]

\* strftime('%Y-%m-%d'); %Y is the C library's: zero-padded on some, not on others
strftime(n) ==
    LET c == ord2ymd(n)
    IN  (IF strftime_pads_year THEN Pad4(c.year) ELSE Decimal(c.year))
        \o <<"-">> \o Pad2(c.month) \o <<"-">> \o Pad2(c.day)

\* datetime +/- timedelta(days): OverflowError outside 1..MAXORDINAL
InRange(n) == n >= 1 /\ n <= MAXORDINAL

-----------------------------------------------------------------------------
(* The date tools *)

\* get_monday.py: get_monday(date) on a datetime
get_monday_dt(n) ==
    IF InRange(n - weekday(n)) THEN ReturnDate(n - weekday(n))
    ELSE Raise("OverflowError", DateRangeMsg)

get_monday(v) ==
    IF v.type # "str" THEN Raise("TypeError", NotStrMsg)
    ELSE LET p == strptime(v.text)
             monday == p.date - weekday(p.date)
         IN  IF ~p.ok THEN Return(InvalidDateMsg)
             ELSE IF ~InRange(monday) THEN Raise("OverflowError", DateRangeMsg)
             ELSE Return(strftime(monday))

RECURSIVE JoinLines(_)
JoinLines(ls) ==
    IF Len(ls) = 0 THEN <<>>
    ELSE IF Len(ls) = 1 THEN ls[1]
    ELSE ls[1] \o <<"\n">> \o JoinLines(Tail(ls))

week_days(monday) ==
    [i \in 1..7 |-> <<day_names[i], ": ">> \o strftime(monday + (i - 1))]

get_week_info(v) ==
    IF v.type # "str" THEN Raise("TypeError", NotStrMsg)
    ELSE LET p == strptime(v.text)
             monday == p.date - weekday(p.date)
         IN  IF ~p.ok THEN Return(InvalidDateMsg)
             ELSE IF ~InRange(monday) THEN Raise("OverflowError", DateRangeMsg)
             ELSE IF \E i \in 0..6 : ~InRange(monday + i)
                  THEN Raise("OverflowError", DateRangeMsg)
             ELSE Return(<<"Week containing ">> \o v.text \o <<":", "\n">>
                         \o JoinLines(week_days(monday)))

\* get_day_of_week without the except ValueError clause
get_day_of_week_uncaught(v) ==
    IF v.type # "str" THEN Raise("TypeError", NotStrMsg)
    ELSE LET p == strptime(v.text)
         IN  IF ~p.ok THEN Raise("ValueError", InvalidDateMsg)
             ELSE Return(v.text \o <<" is a ", day_names[weekday(p.date) + 1]>>)

get_day_of_week(v) ==
    IF v.type # "str" THEN Raise("TypeError", NotStrMsg)
    ELSE LET p == strptime(v.text)
         IN  IF ~p.ok THEN Return(InvalidDateMsg)
             ELSE Return(v.text \o <<" is a ", day_names[weekday(p.date) + 1]>>)

get_current_date(today) == Return(strftime(today))

-----------------------------------------------------------------------------
(* The tool dispatcher of simple_ai_tools.py *)

tool_functions == {"get_monday", "get_current_date", "get_week_info", "get_day_of_week"}

\* the keyword parameters of each tool function
Parameters(name) == IF name = "get_current_date" THEN {} ELSE {"date_str"}

Keys(tool_input) == { tool_input[i].k : i \in 1..Len(tool_input) }

Value(tool_input, key) ==
    tool_input[CHOOSE i \in 1..Len(tool_input) : tool_input[i].k = key].v

BadCallMsg(name) == <<name, "() called with missing or unexpected arguments">>

\* func(**tool_input), or func() when tool_input is empty
CallFunction(name, tool_input, today) ==
    IF Keys(tool_input) # Parameters(name) THEN Raise("TypeError", BadCallMsg(name))
    ELSE IF name = "get_current_date" THEN get_current_date(today)
    ELSE IF name = "get_monday" THEN get_monday(Value(tool_input, "date_str"))
    ELSE IF name = "get_week_info" THEN get_week_info(Value(tool_input, "date_str"))
    ELSE get_day_of_week(Value(tool_input, "date_str"))

DateArg(v) == <<[k |-> "date_str", v |-> v]>>

UnknownTool(name) == <<"Unknown tool: ", name>>

ErrorExecuting(name, msg) == <<"Error executing ", name, ": ">> \o msg

\* execute_tool with the lookup inside the try and no membership test first
execute_tool_no_lookup(name, tool_input, today) ==
    IF name \notin tool_functions THEN ErrorExecuting(name, <<"'", name, "'">>)
    ELSE LET out == CallFunction(name, tool_input, today)
         IN  IF out.kind = "raise" THEN ErrorExecuting(name, out.val) ELSE out.val

execute_tool(name, tool_input, today) ==
    IF name \notin tool_functions THEN UnknownTool(name)
    ELSE LET out == CallFunction(name, tool_input, today)
         IN  IF out.kind = "raise" THEN ErrorExecuting(name, out.val) ELSE out.val

-----------------------------------------------------------------------------
(* Date texts the date tools are tried on *)

YearTexts ==
    { <<"0", "0", "0", "1">>, <<"0", "9", "9", "9">>, <<"1", "0", "0", "0">>,
      <<"2", "0", "2", "4">>, <<"2", "0", "2", "5">>, <<"9", "9", "9", "9">>,
      <<"0", "0", "0", "0">>, <<"2", "0", "a", "5">>, <<"9", "9", "9">> }

MonthTexts ==
    { <<"0", "1">>, <<"0", "2">>, <<"0", "7">>, <<"1", "2">>, <<"7">>,
      <<"1", "3">>, <<"0", "0">>, <<"x">> }

DayTexts ==
    { <<"0", "1">>, <<"0", "3">>, <<"0", "8">>, <<"2", "5">>, <<"2", "6">>,
      <<"2", "7">>, <<"2", "8">>, <<"2", "9">>, <<"3", "0">>, <<"3", "1">>,
      <<"8">>, <<" ", "8">>, <<"3", "2">>, <<"4", "0">>, <<"0", "0">>,
      <<"0", "8", " ">> }

OtherTexts ==
    { <<>>, <<"n", "o", "t", "-", "a", "-", "d", "a", "t", "e">>,
      <<"2", "0", "2", "5", "0", "7", "0", "8">>,
      <<"2", "0", "2", "5", "/", "0", "7", "/", "0", "8">>,
      <<" ", "2", "0", "2", "5", "-", "0", "7", "-", "0", "8">> }

DateTexts ==
    { y \o <<"-">> \o m \o <<"-">> \o d : y \in YearTexts, m \in MonthTexts, d \in DayTexts }
    \cup OtherTexts

DateInit ==
    /\ program = "dates"
    /\ pc = "ready"
    /\ strftime_pads_year \in BOOLEAN
    /\ date_str \in { Str(t) : t \in DateTexts } \cup { NotStr }
    /\ tool_name = "none"
    /\ result = NoResult
    /\ prev_result = NoResult
    /\ user_input = <<>>
    /\ conversation_history = <<>>
    /\ messages = <<>>
    /\ tools_used = <<>>
    /\ tool_results = <<>>
    /\ response_text = <<>>
    /\ requests = 0
    /\ executed = <<>>
    /\ first_response = NoResponse
    /\ turn_start = <<>>
    /\ outcome = "none"

CallGetMonday ==
    /\ program = "dates" /\ pc = "ready"
    /\ tool_name' = "get_monday"
    /\ result' = get_monday(date_str)
    /\ pc' = "called"
    /\ UNCHANGED <<program, strftime_pads_year, date_str, prev_result>>
    /\ UNCHANGED relay_vars

CallGetWeekInfo ==
    /\ program = "dates" /\ pc = "ready"
    /\ tool_name' = "get_week_info"
    /\ result' = get_week_info(date_str)
    /\ pc' = "called"
    /\ UNCHANGED <<program, strftime_pads_year, date_str, prev_result>>
    /\ UNCHANGED relay_vars

CallGetDayOfWeek ==
    /\ program = "dates" /\ pc = "ready"
    /\ tool_name' = "get_day_of_week"
    /\ result' = get_day_of_week(date_str)
    /\ pc' = "called"
    /\ UNCHANGED <<program, strftime_pads_year, date_str, prev_result>>
    /\ UNCHANGED relay_vars

\* get_current_date on a day the clock may show
CallGetCurrentDate ==
    /\ program = "dates" /\ pc = "ready"
    /\ date_str.type = "str" /\ strptime(date_str.text).ok
    /\ tool_name' = "get_current_date"
    /\ result' = get_current_date(strptime(date_str.text).date)
    /\ pc' = "called"
    /\ UNCHANGED <<program, strftime_pads_year, date_str, prev_result>>
    /\ UNCHANGED relay_vars

\* get_monday.py main: parse the text, then get_monday on the datetime
CallGetMondayDatetime ==
    /\ program = "dates" /\ pc = "ready"
    /\ date_str.type = "str" /\ strptime(date_str.text).ok
    /\ tool_name' = "get_monday_dt"
    /\ result' = get_monday_dt(strptime(date_str.text).date)
    /\ pc' = "called"
    /\ UNCHANGED <<program, strftime_pads_year, date_str, prev_result>>
    /\ UNCHANGED relay_vars

\* the Monday text returned is given to get_monday again
AgainGetMonday ==
    /\ program = "dates"
    /\ pc = "called"
    /\ tool_name = "get_monday"
    /\ result.kind = "return"
    /\ date_str' = Str(result.val)
    /\ prev_result' = result
    /\ result' = get_monday(Str(result.val))
    /\ pc' = "again"
    /\ UNCHANGED <<program, strftime_pads_year, tool_name>>
    /\ UNCHANGED relay_vars

\* the Monday datetime returned is given to get_monday again
AgainGetMondayDatetime ==
    /\ program = "dates"
    /\ pc = "called"
    /\ tool_name = "get_monday_dt"
    /\ result.kind = "return"
    /\ prev_result' = result
    /\ result' = get_monday_dt(result.date)
    /\ pc' = "again"
    /\ UNCHANGED <<program, strftime_pads_year, tool_name, date_str>>
    /\ UNCHANGED relay_vars

\* the relay hands the same text to the same tool through execute_tool
ExecuteTool ==
    /\ program = "dates" /\ pc = "called"
    /\ tool_name \in tool_functions \ {"get_current_date"}
    /\ prev_result' = result
    /\ result' = Return(execute_tool(tool_name, DateArg(date_str), 0))
    /\ pc' = "executed"
    /\ UNCHANGED <<program, strftime_pads_year, tool_name, date_str>>
    /\ UNCHANGED relay_vars

DateNext ==
    \/ CallGetMonday
    \/ CallGetWeekInfo
    \/ CallGetDayOfWeek
    \/ CallGetCurrentDate
    \/ CallGetMondayDatetime
    \/ AgainGetMonday
    \/ AgainGetMondayDatetime
    \/ ExecuteTool

DateSpec == DateInit /\ [][DateNext]_vars

-----------------------------------------------------------------------------
(* Messages and responses *)

TextBlock(t) == [type |-> "text", text |-> t]

ToolUse(name, id, input) == [type |-> "tool_use", name |-> name, id |-> id, input |-> input]

ToolResult(id, content) == [type |-> "tool_result", tool_use_id |-> id, content |-> content]

UserMessage(t) == [role |-> "user", content |-> <<[type |-> "str", text |-> t]>>]

UserResults(results) == [role |-> "user", content |-> results]

AssistantMessage(content) == [role |-> "assistant", content |-> content]

RECURSIVE TextOf(_)
\* the concatenated text of the text blocks of a response
TextOf(content) ==
    IF content = <<>> THEN <<>>
    ELSE (IF Head(content).type = "text" THEN Head(content).text ELSE <<>>)
         \o TextOf(Tail(content))

RECURSIVE ToolUseBlocks(_)
ToolUseBlocks(content) ==
    IF content = <<>> THEN <<>>
    ELSE (IF Head(content).type = "tool_use" THEN <<Head(content)>> ELSE <<>>)
         \o ToolUseBlocks(Tail(content))

RECURSIVE ProcessToolCallsNewestFirst(_, _)
\* the loop with tool_results.insert(0, ...) in place of append
ProcessToolCallsNewestFirst(content, today) ==
    IF content = <<>> THEN <<>>
    ELSE ProcessToolCallsNewestFirst(Tail(content), today)
         \o (IF Head(content).type = "tool_use"
             THEN <<ToolResult(Head(content).id,
                               execute_tool(Head(content).name, Head(content).input, today))>>
             ELSE <<>>)

RECURSIVE ProcessToolCalls(_, _)
\* the for loop over response.content: one tool result per tool_use block
ProcessToolCalls(content, today) ==
    IF content = <<>> THEN <<>>
    ELSE (IF Head(content).type = "tool_use"
          THEN <<ToolResult(Head(content).id,
                            execute_tool(Head(content).name, Head(content).input, today))>>
          ELSE <<>>)
         \o ProcessToolCalls(Tail(content), today)

\* tools_used.append(tool_name) for each tool_use block
ToolsUsed(content) == [i \in 1..Len(ToolUseBlocks(content)) |-> ToolUseBlocks(content)[i].name]

\* the tool_use ids handed to execute_tool, in the order of the calls
Executed(content) == [i \in 1..Len(ToolUseBlocks(content)) |-> ToolUseBlocks(content)[i].id]

CommunicationError == <<"Error communicating with Claude: ", "connection failed">>

-----------------------------------------------------------------------------
(* The command line: str.strip() and str.lower() *)

UpperChars ==
    <<"A", "B", "C", "D", "E", "F", "G", "H", "I", "J", "K", "L", "M",
      "N", "O", "P", "Q", "R", "S", "T", "U", "V", "W", "X", "Y", "Z">>

LowerChars ==
    <<"a", "b", "c", "d", "e", "f", "g", "h", "i", "j", "k", "l", "m",
      "n", "o", "p", "q", "r", "s", "t", "u", "v", "w", "x", "y", "z">>

LowerChar(c) ==
    IF \E i \in 1..26 : UpperChars[i] = c
    THEN LowerChars[CHOOSE i \in 1..26 : UpperChars[i] = c]
    ELSE c

lower(t) == [i \in 1..Len(t) |-> LowerChar(t[i])]

IsSpace(c) == c \in {" ", "\t", "\n"}

RECURSIVE lstrip(_)
lstrip(t) == IF t # <<>> /\ IsSpace(Head(t)) THEN lstrip(Tail(t)) ELSE t

RECURSIVE rstrip(_)
rstrip(t) ==
    IF t # <<>> /\ IsSpace(t[Len(t)]) THEN rstrip(SubSeq(t, 1, Len(t) - 1)) ELSE t

strip(t) == rstrip(lstrip(t))

BYE == <<"/", "b", "y", "e">>

EXIT == <<"/", "e", "x", "i", "t">>

QUIT == <<"/", "q", "u", "i", "t">>

HELP == <<"/", "h", "e", "l", "p">>

CLEAR == <<"/", "c", "l", "e", "a", "r">>

SP_EXIT_UP == <<" ", "/", "E", "X", "I", "T">>

QUIT_MIXED == <<"/", "Q", "u", "i", "t">>

HELP_UP == <<"/", "H", "E", "L", "P">>

SP_CLEAR_MIXED == <<"/", "C", "l", "e", "a", "r", " ">>

HI == <<"h", "i">>

SP_HI_SP == <<" ", "h", "i", " ">>

ExitCommands == { BYE, EXIT, QUIT }

IsExit(t) == lower(t) \in ExitCommands

IsHelp(t) == lower(t) = HELP

IsClear(t) == lower(t) = CLEAR

\* what the user may type at the prompt
RawInputs ==
    { BYE, SP_EXIT_UP, QUIT_MIXED, HELP_UP, CLEAR, SP_CLEAR_MIXED,
      <<" ", " ">>, SP_HI_SP }

-----------------------------------------------------------------------------
(* The remote endpoint and the clock: what they may answer *)

MaxBlocks == 2

MaxHistory == 5

T_20250708 == <<"2", "0", "2", "5", "-", "0", "7", "-", "0", "8">>

T_99991231 == <<"9", "9", "9", "9", "-", "1", "2", "-", "3", "1">>

T_20251340 == <<"2", "0", "2", "5", "-", "1", "3", "-", "4", "0">>

ToolUses ==
    { ToolUse("get_monday", "toolu_01", DateArg(Str(T_20250708))),
      ToolUse("get_week_info", "toolu_02", DateArg(Str(T_99991231))),
      ToolUse("get_weather", "toolu_03", <<>>),
      ToolUse("get_day_of_week", "toolu_04", DateArg(Str(T_20251340))) }

Blocks == { TextBlock(<<"ok">>) } \cup ToolUses

\* the tool_use ids of one response are distinct
Contents ==
    { c \in UNION { [1..n -> Blocks] : n \in 0..MaxBlocks } :
        \A i, j \in 1..Len(c) :
            (i # j /\ c[i].type = "tool_use" /\ c[j].type = "tool_use") => c[i].id # c[j].id }

StopReasons == {"end_turn", "tool_use"}

Responses == [stop_reason : StopReasons, content : Contents]

Todays == { ymd2ord(2025, 7, 8) }

-----------------------------------------------------------------------------
(* simple_ai_tools.py: main and chat_with_claude *)

Init ==
    /\ program \in {"simple", "pydantic"}
    /\ pc = "input"
    /\ strftime_pads_year = FALSE
    /\ user_input = <<>>
    /\ conversation_history = <<>>
    /\ messages = <<>>
    /\ tools_used = <<>>
    /\ tool_results = <<>>
    /\ response_text = <<>>
    /\ requests = 0
    /\ executed = <<>>
    /\ first_response = NoResponse
    /\ turn_start = <<>>
    /\ outcome = "none"
    /\ date_str = Str(<<>>)
    /\ tool_name = "none"
    /\ result = NoResult
    /\ prev_result = NoResult

platform_vars == <<program, strftime_pads_year>>

call_vars == <<messages, tools_used, tool_results, response_text, requests,
               executed, first_response, turn_start>>

\* what the last call of chat_with_claude left is dead once the prompt is read again
CallForgotten ==
    /\ messages' = <<>>
    /\ tools_used' = <<>>
    /\ tool_results' = <<>>
    /\ response_text' = <<>>
    /\ requests' = 0
    /\ executed' = <<>>
    /\ first_response' = NoResponse
    /\ turn_start' = <<>>

\* the loop is left and the process ends: its memory, the history included, is gone
ProcessEnds(how) ==
    /\ pc' = "exited"
    /\ outcome' = how
    /\ conversation_history' = <<>>
    /\ CallForgotten

\* one pass of the loop that ends in break: /bye, /exit, /quit
InputExit ==
    /\ program = "simple" /\ pc = "input"
    /\ \E raw \in RawInputs :
        /\ IsExit(strip(raw))
        /\ user_input' = strip(raw)
    /\ ProcessEnds("bye")
    /\ UNCHANGED <<platform_vars, date_vars>>

InputHelp ==
    /\ program = "simple" /\ pc = "input"
    /\ \E raw \in RawInputs :
        /\ ~IsExit(strip(raw)) /\ IsHelp(strip(raw))
        /\ user_input' = strip(raw)
    /\ outcome' = "help"
    /\ CallForgotten
    /\ UNCHANGED <<pc, conversation_history, platform_vars, date_vars>>

InputClear ==
    /\ program = "simple" /\ pc = "input"
    /\ \E raw \in RawInputs :
        /\ ~IsExit(strip(raw)) /\ ~IsHelp(strip(raw)) /\ IsClear(strip(raw))
        /\ user_input' = strip(raw)
    /\ conversation_history' = <<>>
    /\ outcome' = "clear"
    /\ CallForgotten
    /\ UNCHANGED <<pc, platform_vars, date_vars>>

InputEmpty ==
    /\ program = "simple" /\ pc = "input"
    /\ \E raw \in RawInputs :
        /\ ~IsExit(strip(raw)) /\ ~IsHelp(strip(raw)) /\ ~IsClear(strip(raw))
        /\ strip(raw) = <<>>
        /\ user_input' = strip(raw)
    /\ outcome' = "empty"
    /\ CallForgotten
    /\ UNCHANGED <<pc, conversation_history, platform_vars, date_vars>>

IsMessage(t) == ~IsExit(t) /\ ~IsHelp(t) /\ ~IsClear(t) /\ t # <<>>

\* chat_with_claude appending to the list it was passed
InputMessageInPlace ==
    /\ program = "simple" /\ pc = "input"
    /\ Len(conversation_history) + 2 <= MaxHistory
    /\ \E raw \in RawInputs :
        /\ IsMessage(strip(raw))
        /\ user_input' = strip(raw)
        /\ messages' = conversation_history \o <<UserMessage(strip(raw))>>
    /\ conversation_history' = messages'
    /\ tools_used' = <<>>
    /\ tool_results' = <<>>
    /\ response_text' = <<>>
    /\ executed' = <<>>
    /\ first_response' = NoResponse
    /\ turn_start' = conversation_history
    /\ requests' = 1
    /\ pc' = "request1"
    /\ UNCHANGED <<outcome, platform_vars, date_vars>>

\* chat_with_claude up to the first client.messages.create
InputMessage ==
    /\ program = "simple" /\ pc = "input"
    /\ Len(conversation_history) + 2 <= MaxHistory
    /\ \E raw \in RawInputs :
        /\ IsMessage(strip(raw))
        /\ user_input' = strip(raw)
        /\ messages' = conversation_history \o <<UserMessage(strip(raw))>>
    /\ tools_used' = <<>>
    /\ tool_results' = <<>>
    /\ response_text' = <<>>
    /\ executed' = <<>>
    /\ first_response' = NoResponse
    /\ turn_start' = conversation_history
    /\ requests' = 1
    /\ pc' = "request1"
    /\ UNCHANGED <<conversation_history, outcome, platform_vars, date_vars>>

\* the first create raises and nothing catches it
FirstRequestFailsUncaught ==
    /\ program = "simple" /\ pc = "request1"
    /\ ProcessEnds("error_first")
    /\ UNCHANGED <<user_input, platform_vars, date_vars>>

\* the first create raises: except Exception returns the error and messages
FirstRequestFails ==
    /\ program = "simple" /\ pc = "request1"
    /\ response_text' = CommunicationError
    /\ tools_used' = <<>>
    /\ conversation_history' = messages
    /\ outcome' = "error_first"
    /\ pc' = "input"
    /\ UNCHANGED <<user_input, messages, tool_results, requests, executed,
                   first_response, turn_start, platform_vars, date_vars>>

\* the first response does not ask for tools
FirstResponseFinal ==
    /\ program = "simple" /\ pc = "request1"
    /\ \E response \in Responses :
        /\ response.stop_reason # "tool_use"
        /\ first_response' = response
        /\ messages' = Append(messages, AssistantMessage(response.content))
        /\ response_text' = TextOf(response.content)
    /\ conversation_history' = messages'
    /\ outcome' = "ok"
    /\ pc' = "input"
    /\ UNCHANGED <<user_input, tools_used, tool_results, requests, executed,
                   turn_start, platform_vars, date_vars>>

\* the first response asks for tools: run them, append the results, ask again
FirstResponseToolUse ==
    /\ program = "simple" /\ pc = "request1"
    /\ Len(messages) + 3 <= MaxHistory
    /\ \E response \in Responses, today \in Todays :
        /\ response.stop_reason = "tool_use"
        /\ first_response' = response
        /\ tool_results' = ProcessToolCalls(response.content, today)
        /\ tools_used' = ToolsUsed(response.content)
        /\ executed' = Executed(response.content)
        /\ messages' = messages \o <<AssistantMessage(response.content),
                                     UserResults(ProcessToolCalls(response.content, today))>>
    /\ requests' = requests + 1
    /\ pc' = "request2"
    /\ UNCHANGED <<user_input, conversation_history, response_text, turn_start,
                   outcome, platform_vars, date_vars>>

\* the second create raises and the history given is handed back
SecondRequestFailsRollsBack ==
    /\ program = "simple" /\ pc = "request2"
    /\ response_text' = CommunicationError
    /\ tools_used' = <<>>
    /\ conversation_history' = turn_start
    /\ outcome' = "error_second"
    /\ pc' = "input"
    /\ UNCHANGED <<user_input, messages, tool_results, requests, executed,
                   first_response, turn_start, platform_vars, date_vars>>

\* the second create raises
SecondRequestFails ==
    /\ program = "simple" /\ pc = "request2"
    /\ response_text' = CommunicationError
    /\ tools_used' = <<>>
    /\ conversation_history' = messages
    /\ outcome' = "error_second"
    /\ pc' = "input"
    /\ UNCHANGED <<user_input, messages, tool_results, requests, executed,
                   first_response, turn_start, platform_vars, date_vars>>

\* a second response that asks for tools is served like the first
SecondResponseLoops ==
    /\ program = "simple" /\ pc = "request2"
    /\ \E final_response \in Responses, today \in Todays :
        IF final_response.stop_reason = "tool_use"
        THEN /\ messages' = messages \o <<AssistantMessage(final_response.content),
                                          UserResults(ProcessToolCalls(final_response.content, today))>>
             /\ executed' = executed \o Executed(final_response.content)
             /\ requests' = requests + 1
             /\ UNCHANGED <<conversation_history, response_text, outcome, pc>>
        ELSE /\ response_text' = TextOf(final_response.content)
             /\ messages' = Append(messages, AssistantMessage(final_response.content))
             /\ conversation_history' = messages'
             /\ outcome' = "ok_tools"
             /\ pc' = "input"
             /\ UNCHANGED <<requests, executed>>
    /\ UNCHANGED <<user_input, tools_used, tool_results,
                   first_response, turn_start, platform_vars, date_vars>>

\* the second response ends the turn, whatever it holds
SecondResponse ==
    /\ program = "simple" /\ pc = "request2"
    /\ \E final_response \in Responses :
        /\ response_text' = TextOf(final_response.content)
        /\ messages' = Append(messages, AssistantMessage(final_response.content))
    /\ conversation_history' = messages'
    /\ outcome' = "ok_tools"
    /\ pc' = "input"
    /\ UNCHANGED <<user_input, tools_used, tool_results, requests, executed,
                   first_response, turn_start, platform_vars, date_vars>>

\* Ctrl+C at the prompt or during a request: except KeyboardInterrupt, break
Interrupt ==
    /\ program = "simple" /\ pc \in {"input", "request1", "request2"}
    /\ ProcessEnds("interrupt")
    /\ UNCHANGED <<user_input, platform_vars, date_vars>>

\* end of input at the prompt: except EOFError, break
EndOfInput ==
    /\ program = "simple" /\ pc = "input"
    /\ ProcessEnds("eof")
    /\ UNCHANGED <<user_input, platform_vars, date_vars>>

-----------------------------------------------------------------------------
(* pydantic_ai_tools.py: main; the agent keeps no history between turns *)

\* the if chain of the loop body, in its order
AgentBranch(t) ==
    IF IsExit(t) THEN "exit"
    ELSE IF IsHelp(t) THEN "help"
    ELSE IF IsClear(t) THEN "clear"
    ELSE IF t = <<>> THEN "empty"
    ELSE "message"

AgentInputExit ==
    /\ program = "pydantic" /\ pc = "input"
    /\ \E raw \in RawInputs :
        /\ AgentBranch(strip(raw)) = "exit"
        /\ user_input' = strip(raw)
    /\ pc' = "exited"
    /\ outcome' = "bye"
    /\ UNCHANGED <<conversation_history, call_vars, platform_vars, date_vars>>

AgentInputHelp ==
    /\ program = "pydantic" /\ pc = "input"
    /\ \E raw \in RawInputs :
        /\ AgentBranch(strip(raw)) = "help"
        /\ user_input' = strip(raw)
    /\ pc' = "input"
    /\ outcome' = "help"
    /\ UNCHANGED <<conversation_history, call_vars, platform_vars, date_vars>>

\* the agent's history is not reset: there is none in main
AgentInputClear ==
    /\ program = "pydantic" /\ pc = "input"
    /\ \E raw \in RawInputs :
        /\ AgentBranch(strip(raw)) = "clear"
        /\ user_input' = strip(raw)
    /\ pc' = "input"
    /\ outcome' = "clear"
    /\ UNCHANGED <<conversation_history, call_vars, platform_vars, date_vars>>

AgentInputEmpty ==
    /\ program = "pydantic" /\ pc = "input"
    /\ \E raw \in RawInputs :
        /\ AgentBranch(strip(raw)) = "empty"
        /\ user_input' = strip(raw)
    /\ pc' = "input"
    /\ outcome' = "empty"
    /\ UNCHANGED <<conversation_history, call_vars, platform_vars, date_vars>>

\* agent.run_sync(user_input) is entered
AgentInputMessage ==
    /\ program = "pydantic" /\ pc = "input"
    /\ \E raw \in RawInputs :
        /\ AgentBranch(strip(raw)) = "message"
        /\ user_input' = strip(raw)
    /\ pc' = "run_sync"
    /\ outcome' = outcome
    /\ UNCHANGED <<conversation_history, call_vars, platform_vars, date_vars>>

AgentRunReturns ==
    /\ program = "pydantic" /\ pc = "run_sync"
    /\ pc' = "input"
    /\ outcome' = "ok"
    /\ UNCHANGED <<user_input, conversation_history, call_vars, platform_vars, date_vars>>

\* run_sync raises: except Exception prints the error, the loop goes on
AgentRunRaises ==
    /\ program = "pydantic" /\ pc = "run_sync"
    /\ pc' = "input"
    /\ outcome' = "error_agent"
    /\ UNCHANGED <<user_input, conversation_history, call_vars, platform_vars, date_vars>>

AgentInterrupt ==
    /\ program = "pydantic" /\ pc \in {"input", "run_sync"}
    /\ pc' = "exited"
    /\ outcome' = "interrupt"
    /\ UNCHANGED <<user_input, conversation_history, call_vars, platform_vars, date_vars>>

AgentEndOfInput ==
    /\ program = "pydantic" /\ pc = "input"
    /\ pc' = "exited"
    /\ outcome' = "eof"
    /\ UNCHANGED <<user_input, conversation_history, call_vars, platform_vars, date_vars>>

Next ==
    \/ InputExit
    \/ InputHelp
    \/ InputClear
    \/ InputEmpty
    \/ InputMessage
    \/ FirstRequestFails
    \/ FirstResponseFinal
    \/ FirstResponseToolUse
    \/ SecondRequestFails
    \/ SecondResponse
    \/ Interrupt
    \/ EndOfInput
    \/ AgentInputExit
    \/ AgentInputHelp
    \/ AgentInputClear
    \/ AgentInputEmpty
    \/ AgentInputMessage
    \/ AgentRunReturns
    \/ AgentRunRaises
    \/ AgentInterrupt
    \/ AgentEndOfInput

Spec == Init /\ [][Next]_vars

-----------------------------------------------------------------------------
(* Reading a date text back, for the properties below: three numeric parts  *)
(* separated by hyphens, however wide.                                      *)

DashPositions(t) == { i \in 1..Len(t) : t[i] = "-" }

FirstDash(t) == CHOOSE i \in DashPositions(t) : \A j \in DashPositions(t) : i <= j

LastDash(t) == CHOOSE i \in DashPositions(t) : \A j \in DashPositions(t) : j <= i

YearPart(t) == SubSeq(t, 1, FirstDash(t) - 1)

MonthPart(t) == SubSeq(t, FirstDash(t) + 1, LastDash(t) - 1)

DayPart(t) == SubSeq(t, LastDash(t) + 1, Len(t))

AllDigits(t) == t # <<>> /\ \A i \in 1..Len(t) : IsDigit(t[i])

\* a day may be written with a leading space instead of a leading zero
DayDigits(t) == IF Len(t) = 2 /\ t[1] = " " THEN <<t[2]>> ELSE t

NumericParts(t) ==
    /\ Cardinality(DashPositions(t)) = 2
    /\ AllDigits(YearPart(t)) /\ AllDigits(MonthPart(t)) /\ AllDigits(DayDigits(DayPart(t)))

PossibleDate(y, m, d) ==
    /\ y >= 1 /\ y <= 9999
    /\ m >= 1 /\ m <= 12
    /\ d >= 1 /\ d <= DaysInMonth(y, m)

\* the text is not a date in year-month-day form: wrong format, a part that
\* is not a number, or a day the month does not have
Malformed(t) ==
    \/ ~NumericParts(t)
    \/ Len(YearPart(t)) # 4 \/ Len(MonthPart(t)) > 2 \/ Len(DayPart(t)) > 2
    \/ ~PossibleDate(Number(YearPart(t)), Number(MonthPart(t)), Number(DayDigits(DayPart(t))))

\* the ordinal of the day a text names, 0 when it names none
TextDate(t) ==
    IF NumericParts(t)
       /\ PossibleDate(Number(YearPart(t)), Number(MonthPart(t)), Number(DayDigits(DayPart(t))))
    THEN ymd2ord(Number(YearPart(t)), Number(MonthPart(t)), Number(DayDigits(DayPart(t))))
    ELSE 0

RECURSIVE SplitLines(_)
SplitLines(t) ==
    IF \A i \in 1..Len(t) : t[i] # "\n" THEN <<t>>
    ELSE LET n == CHOOSE i \in 1..Len(t) : t[i] = "\n" /\ \A j \in 1..(i - 1) : t[j] # "\n"
         IN  <<SubSeq(t, 1, n - 1)>> \o SplitLines(SubSeq(t, n + 1, Len(t)))

WeekdayNames ==
    <<"Monday", "Tuesday", "Wednesday", "Thursday", "Friday", "Saturday", "Sunday">>

\* Monday is the day whose ordinal is 1 modulo 7 (0001-01-01 was a Monday)
IsMonday(n) == n % 7 = 1

ValidDateText == date_str.type = "str" /\ ~Malformed(date_str.text)

InputDate == TextDate(date_str.text)

TextTools == {"get_monday", "get_week_info", "get_day_of_week"}

-----------------------------------------------------------------------------
(* C6 *)

WeekLines == SplitLines(result.val)

\* C6: for every valid date text, get_week_info returns normally with seven
\* entries, named Monday to Sunday in that order, whose dates are the seven
\* consecutive days that start at the Monday of the date's week; also in the
\* last week of year 9999.
C6_WeekInfoSevenDays ==
    (program = "dates" /\ pc = "called" /\ tool_name = "get_week_info" /\ ValidDateText) =>
        /\ result.kind = "return"
        /\ Len(WeekLines) = 8
        /\ \A i \in 1..7 :
            /\ Len(WeekLines[i + 1]) > 2
            /\ WeekLines[i + 1][1] = WeekdayNames[i]
            /\ WeekLines[i + 1][2] = ": "
            /\ TextDate(SubSeq(WeekLines[i + 1], 3, Len(WeekLines[i + 1]))) > 0
            /\ IsMonday(TextDate(SubSeq(WeekLines[i + 1], 3, Len(WeekLines[i + 1]))) - (i - 1))
            /\ TextDate(SubSeq(WeekLines[i + 1], 3, Len(WeekLines[i + 1]))) - (i - 1) <= InputDate
            /\ InputDate - (TextDate(SubSeq(WeekLines[i + 1], 3, Len(WeekLines[i + 1]))) - (i - 1)) < 7

-----------------------------------------------------------------------------
(* C7 *)

\* C7: for every valid date, get_monday gives a Monday that is not after the
\* date and less than seven days before it, and get_monday of that Monday is
\* the same Monday, also when both calls go through the YYYY-MM-DD text.
C7_MondayIdempotent ==
    /\ (program = "dates" /\ pc = "called" /\ tool_name = "get_monday_dt") =>
        /\ result.kind = "return"
        /\ IsMonday(result.date)
        /\ result.date <= InputDate
        /\ InputDate - result.date < 7
    /\ (program = "dates" /\ pc = "again" /\ tool_name = "get_monday_dt") =>
        result = prev_result
    /\ (program = "dates" /\ pc = "called" /\ tool_name = "get_monday" /\ ValidDateText) =>
        /\ result.kind = "return"
        /\ IsMonday(TextDate(result.val))
        /\ TextDate(result.val) <= InputDate
        /\ InputDate - TextDate(result.val) < 7
    /\ (program = "dates" /\ pc = "again" /\ tool_name = "get_monday"
            /\ prev_result.val # InvalidDateMsg) =>
        result = prev_result

-----------------------------------------------------------------------------
(* C8 *)

-----------------------------------------------------------------------------
(* The relay: what a turn is seen to have done *)

\* chat_with_claude has just returned to main with this outcome
TurnEnded(how) == program = "simple" /\ pc = "input" /\ requests > 0 /\ outcome = how

IsToolUse(block) == block.type = "tool_use"

\* the tool-invocation requests of a response, in their order
RequestsOf(response) == SelectSeq(response.content, IsToolUse)

IsPrefix(s, t) == Len(s) <= Len(t) /\ SubSeq(t, 1, Len(s)) = s

T_20250707 == <<"2", "0", "2", "5", "-", "0", "7", "-", "0", "7">>

-----------------------------------------------------------------------------
(* C1 *)

\* C1: when the first request of a turn fails, chat_with_claude returns one
\* error text and the history it was given: the history after the failed turn
\* equals the history before it, without the turn's user message.
C1_FirstFailureKeepsHistory ==
    TurnEnded("error_first") =>
        /\ response_text = CommunicationError
        /\ conversation_history = turn_start

-----------------------------------------------------------------------------
(* C2 *)

\* C2: after the tool loop, the one tool-result turn appended holds exactly
\* one result per tool-invocation request of the first response, in the order
\* of the requests, each with the id of its request, and each request was
\* executed exactly once; get_monday of 2025-07-08 gives 2025-07-07.
C2_ResultsMatchRequests ==
    (program = "simple" /\ pc = "request2") =>
        /\ Len(messages) = Len(turn_start) + 3
        /\ messages[Len(messages) - 1] = AssistantMessage(first_response.content)
        /\ messages[Len(messages)].role = "user"
        /\ Len(messages[Len(messages)].content) = Len(RequestsOf(first_response))
        /\ \A i \in 1..Len(RequestsOf(first_response)) :
            /\ messages[Len(messages)].content[i].type = "tool_result"
            /\ messages[Len(messages)].content[i].tool_use_id = RequestsOf(first_response)[i].id
            /\ (RequestsOf(first_response)[i].id = "toolu_01" =>
                    messages[Len(messages)].content[i].content = T_20250707)
        /\ Len(executed) = Len(RequestsOf(first_response))
        /\ \A i \in 1..Len(executed) : executed[i] = RequestsOf(first_response)[i].id

C2_Witness ==
    /\ program = "simple" /\ pc = "request2"
    /\ Len(RequestsOf(first_response)) = 2
    /\ RequestsOf(first_response)[2].id = "toolu_01"
    /\ messages[Len(messages)].content[2].tool_use_id = "toolu_01"
    /\ messages[Len(messages)].content[2].content = T_20250707

-----------------------------------------------------------------------------
(* C3 *)

\* C3: a turn makes at most two requests, in order: exactly one when the
\* first response does not ask for tools, exactly two when it does; the second
\* response ends the turn, and no tool is run for it, also when it asks for
\* tools itself.
C3_AtMostTwoRequests ==
    program = "simple" =>
        /\ requests <= 2
        /\ pc = "request1" => requests = 1
        /\ pc = "request2" => (requests = 2 /\ first_response.stop_reason = "tool_use")
        /\ TurnEnded("ok") => (requests = 1 /\ first_response.stop_reason # "tool_use")
        /\ TurnEnded("ok_tools") =>
            /\ requests = 2
            /\ first_response.stop_reason = "tool_use"
            /\ Len(executed) = Len(RequestsOf(first_response))
            /\ Len(conversation_history) = Len(turn_start) + 4
            /\ conversation_history[Len(conversation_history)].role = "assistant"

\* a turn has ended on a second response that asks for tools itself
C3_Witness ==
    /\ TurnEnded("ok_tools")
    /\ \E i \in 1..Len(conversation_history[Len(conversation_history)].content) :
        conversation_history[Len(conversation_history)].content[i].type = "tool_use"
    /\ Len(executed) = 1

-----------------------------------------------------------------------------
(* C4 *)

\* C4: a tool that is unknown or that raises does not abort the round: an
\* unregistered name gives "Unknown tool: <name>", a raising function gives
\* "Error executing <name>: <message>", the other invocations of the response
\* are still executed, there are as many results as requests, and the second
\* request is made.
C4_ToolFailureDoesNotAbort ==
    (program = "simple" /\ pc = "request2") =>
        /\ requests = 2
        /\ Len(tool_results) = Len(RequestsOf(first_response))
        /\ Len(executed) = Len(RequestsOf(first_response))
        /\ \A i \in 1..Len(RequestsOf(first_response)) :
            /\ RequestsOf(first_response)[i].name = "get_weather" =>
                tool_results[i].content = <<"Unknown tool: ", "get_weather">>
            /\ RequestsOf(first_response)[i].id = "toolu_02" =>
                tool_results[i].content =
                    <<"Error executing ", "get_week_info", ": ", "date value out of range">>
            /\ RequestsOf(first_response)[i].id = "toolu_01" =>
                tool_results[i].content = T_20250707

\* an unknown tool and a raising tool in one response, both answered
C4_Witness ==
    /\ program = "simple" /\ pc = "request2"
    /\ Len(tool_results) = 2
    /\ tool_results[1].content = <<"Unknown tool: ", "get_weather">>
    /\ tool_results[2].content =
            <<"Error executing ", "get_week_info", ": ", "date value out of range">>

-----------------------------------------------------------------------------
(* C5 *)

\* C5: when the second request fails, chat_with_claude returns an error text
\* and the history given, followed by the user message, the assistant's
\* tool-call message and the one tool-result turn, and nothing after them.
C5_SecondFailureKeepsToolTurn ==
    TurnEnded("error_second") =>
        /\ response_text = CommunicationError
        /\ Len(conversation_history) = Len(turn_start) + 3
        /\ IsPrefix(turn_start, conversation_history)
        /\ conversation_history[Len(turn_start) + 1] = UserMessage(user_input)
        /\ conversation_history[Len(turn_start) + 2] = AssistantMessage(first_response.content)
        /\ conversation_history[Len(turn_start) + 3] = UserResults(tool_results)
        /\ Len(tool_results) = Len(RequestsOf(first_response))

C5_Witness ==
    /\ TurnEnded("error_second")
    /\ Len(turn_start) > 0
    /\ Len(tool_results) = 2

-----------------------------------------------------------------------------
(* C9 *)

HistoryStep ==
    (program = "simple" /\ pc' # "exited") =>
        \* a line is read at the prompt
        /\ pc = "input" =>
            /\ IsClear(user_input') => conversation_history' = <<>>
            /\ ~IsClear(user_input') => conversation_history' = conversation_history
            /\ pc' = "request1" => IsMessage(user_input')
        \* chat_with_claude is at work on an accepted message
        /\ (pc # "input" /\ pc' # "input") => conversation_history' = conversation_history
        \* chat_with_claude returns
        /\ (pc # "input" /\ pc' = "input") =>
            /\ IsMessage(user_input)
            /\ Len(conversation_history') > Len(conversation_history)
            /\ IsPrefix(conversation_history, conversation_history')

\* C9: the session history changes in two ways only: the turn of an accepted
\* message replaces it by a longer history of which it is a prefix, and /clear
\* in any letter case empties it; /help and empty input leave it as it is, and
\* chat_with_claude does not change the list it was given while it runs.
C9_HistoryAppendOrClear == [][HistoryStep]_vars

\* a second turn has extended a history that was not empty
C9_Witness ==
    /\ TurnEnded("ok_tools")
    /\ Len(turn_start) > 0
    /\ IsPrefix(turn_start, conversation_history)
    /\ Len(conversation_history) = Len(turn_start) + 4

-----------------------------------------------------------------------------
(* C10 *)

RecoverableErrors == {"error_first", "error_second", "error_agent"}

\* C10: no recoverable error ends the session: the loop is left only on
\* /bye, /exit, /quit, an interrupt or end of input, and after a turn that
\* failed the program is back at the prompt.
C10_ErrorsDoNotEndSession ==
    /\ pc = "exited" =>
        /\ outcome \in {"bye", "interrupt", "eof"}
        /\ outcome = "bye" => lower(user_input) \in ExitCommands
    /\ outcome \in RecoverableErrors => pc \in {"input", "request1", "request2", "run_sync"}
    /\ (program = "simple" /\ requests > 0 /\ pc \notin {"request1", "request2"}) => pc = "input"

\* the message after a turn whose second request failed is being processed
C10_Witness ==
    /\ program = "simple" /\ pc = "request1"
    /\ outcome = "error_second"
    /\ Len(conversation_history) = 3
    /\ \E i \in 1..Len(conversation_history[3].content) :
        conversation_history[3].content[i].content = <<"Unknown tool: ", "get_weather">>

-----------------------------------------------------------------------------
(* C11 *)

\* roles alternate user, assistant, user, ... starting with user
RolesAlternate(history) ==
    \A i \in 1..Len(history) :
        history[i].role = (IF i % 2 = 1 THEN "user" ELSE "assistant")

\* the record holds a tool result with this identifier
AnswersToolUse(record, id) ==
    /\ record.role = "user"
    /\ \E j \in 1..Len(record.content) :
        /\ record.content[j].type = "tool_result"
        /\ record.content[j].tool_use_id = id

\* every tool-invocation request is answered in the record that follows it
ToolUsesAnswered(history) ==
    \A i \in 1..Len(history) :
        history[i].role = "assistant" =>
            \A j \in 1..Len(history[i].content) :
                IsToolUse(history[i].content[j]) =>
                    /\ i < Len(history)
                    /\ AnswersToolUse(history[i + 1], history[i].content[j].id)

WellFormed(history) == RolesAlternate(history) /\ ToolUsesAnswered(history)

\* chat_with_claude is about to send the first request of a turn
NextRequest == program = "simple" /\ pc = "request1"

\* C11: after any sequence of turns through chat_with_claude, failed turns and
\* turns whose second response asked for tools included, the history sent on
\* the next request is well formed: roles alternate starting with user, and
\* every tool-invocation request of an assistant record is answered by a tool
\* result with the same identifier in the user record that follows it.
C11_NextHistoryWellFormed == NextRequest => WellFormed(messages)

=============================================================================
